---- MODULE Spec2Model ----
(***************************************************************************)
(* Model of the scene-pack pipeline of knesgoda/analyzer:                   *)
(*   - analyzer.py: the pydantic schema (Character, Skybox, Scene,          *)
(*     ChapterOutput), analyze_chapter_content (validation step) and the    *)
(*     sequencer sequence_and_format;                                       *)
(*   - app.py: mock_analyze_chapter, the chapter loop of the page script    *)
(*     and the sequencer generate_documents.                                *)
(* A payload is the value handed to the ChapterOutput constructor.  JSON values  *)
(* are modelled as records: [type, value]; a dict is a TLA+ record whose    *)
(* DOMAIN is the set of keys that are present.                              *)
(***************************************************************************)
EXTENDS Integers, Sequences, FiniteSets, TLC

VARIABLES use_mock, chapters, i, all_scenes, log, pc, docs, printed

vars == <<use_mock, chapters, i, all_scenes, log, pc, docs, printed>>

(* ---------------------------- bounds ----------------------------------- *)

\* chapters of a book whose payloads go through the validator
MaxChapters == 3
\* scenes in one chapter payload
MaxScenes == 2
\* characters in one scene of the character-variety inputs
MaxChars == 3
\* chapters of a book analysed in mock mode (2 scenes each)
MaxBookChapters == 51

(* ------------------------ program constants ---------------------------- *)

SKYBOX_NEGATIVE_PROMPT == "people, person, faces, crowds, animals, text, letters, signage, watermark, logo, UI, placeable props, furniture, vehicles, modern objects, anachronistic items, blurry"

\* analyzer.py:145  if len(structured_data.scenes) < 2
MinScenes == 2

\* the width of the format spec {:02}
PadWidth == 2

(* ------------------------- string formatting --------------------------- *)

Digit == <<"0", "1", "2", "3", "4", "5", "6", "7", "8", "9">>

RECURSIVE Dec(_)
\* str(n) for n >= 0: the decimal digits, most significant first
Dec(n) == IF n < 10 THEN Digit[n + 1] ELSE Dec(n \div 10) \o Digit[(n % 10) + 1]

RECURSIVE ZeroFill(_, _)
ZeroFill(s, w) == IF Len(s) >= w THEN s ELSE ZeroFill("0" \o s, w)

\* the index is cut to its last two digits
Fmt02_truncated(n) == ZeroFill(Dec(n % 100), PadWidth)

\* f"{n:02}": zero padded to a minimum width, never truncated
Fmt02(n) == ZeroFill(Dec(n), PadWidth)

\* scene_id = f"ch{global_idx:02}"
SceneId(n) == "ch" \o Fmt02(n)

(* ------------------------------ schema --------------------------------- *)

\* class Character(BaseModel): name, role, visual_description are required str
ValidCharacter(c) == {"name", "role", "visual_description"} \subseteq DOMAIN c

Character(c) ==
    [name |-> c.name, role |-> c.role, visual_description |-> c.visual_description]

\* class Skybox(BaseModel): negative_prompt has a default, the others are required
ValidSkybox(e) == {"visual_prompt", "environment_type"} \subseteq DOMAIN e

\* the canonical constant overwrites whatever the payload supplies
Skybox_forced(e) ==
    [visual_prompt    |-> e.visual_prompt,
     negative_prompt  |-> SKYBOX_NEGATIVE_PROMPT,
     environment_type |-> e.environment_type]

Skybox(e) ==
    [visual_prompt    |-> e.visual_prompt,
     negative_prompt  |-> IF "negative_prompt" \in DOMAIN e
                          THEN e.negative_prompt
                          ELSE SKYBOX_NEGATIVE_PROMPT,
     environment_type |-> e.environment_type]

\* class Scene(BaseModel)
ValidScene(s) ==
    /\ {"location", "chapter_beat", "trigger_sentence", "characters",
        "skybox_environment"} \subseteq DOMAIN s
    /\ \A k \in 1..Len(s.characters) : ValidCharacter(s.characters[k])
    /\ ValidSkybox(s.skybox_environment)

Scene(s) ==
    [location           |-> s.location,
     chapter_beat       |-> s.chapter_beat,
     trigger_sentence   |-> s.trigger_sentence,
     characters         |-> [k \in 1..Len(s.characters) |-> Character(s.characters[k])],
     skybox_environment |-> Skybox(s.skybox_environment)]

\* class ChapterOutput(BaseModel): scenes: List[Scene]
ValidChapterOutput(d) ==
    /\ "scenes" \in DOMAIN d
    /\ d.scenes.type = "list"
    /\ \A k \in 1..Len(d.scenes.value) : ValidScene(d.scenes.value[k])

ChapterOutput(d) ==
    [scenes |-> [k \in 1..Len(d.scenes.value) |-> Scene(d.scenes.value[k])]]

(* ------------------------ analyzer.py: validation ---------------------- *)

\* the ValidationError is not caught
analyze_chapter_content_uncaught(payload) ==
    IF payload.type # "dict"
    THEN [raised |-> "TypeError", ret |-> <<>>, out |-> "none", calls |-> 1]
    ELSE IF ~ValidChapterOutput(payload.value)
    THEN [raised |-> "ValidationError", ret |-> <<>>, out |-> "none", calls |-> 1]
    ELSE LET structured_data == ChapterOutput(payload.value) IN
         [raised |-> "none",
          ret    |-> structured_data.scenes,
          out    |-> IF Len(structured_data.scenes) < MinScenes
                     THEN "WARNING: Coverage too low"
                     ELSE "none",
          calls  |-> 1]

\* low coverage re-prompts the model once and gives up the chapter's scenes
analyze_chapter_content_reprompt(payload) ==
    IF payload.type # "dict"
    THEN [raised |-> "TypeError", ret |-> <<>>, out |-> "none", calls |-> 1]
    ELSE IF ~ValidChapterOutput(payload.value)
    THEN [raised |-> "none", ret |-> <<>>, out |-> "Data Validation Failed", calls |-> 1]
    ELSE LET structured_data == ChapterOutput(payload.value) IN
         IF Len(structured_data.scenes) < MinScenes
         THEN [raised |-> "none", ret |-> <<>>,
               out |-> "WARNING: Coverage too low", calls |-> 2]
         ELSE [raised |-> "none", ret |-> structured_data.scenes,
               out |-> "none", calls |-> 1]

\* One call of analyze_chapter_content on a payload.
\*   raised  : the exception that leaves the function ("none" when it returns)
\*   ret     : the returned list of scenes
\*   out     : what the call prints
\*   calls   : requests made to the external model for this chapter
analyze_chapter_content(payload) ==
    IF payload.type # "dict"
    THEN \* keyword expansion of a non-mapping: TypeError, not a ValidationError
         [raised |-> "TypeError", ret |-> <<>>, out |-> "none", calls |-> 1]
    ELSE IF ~ValidChapterOutput(payload.value)
    THEN [raised |-> "none", ret |-> <<>>, out |-> "Data Validation Failed", calls |-> 1]
    ELSE LET structured_data == ChapterOutput(payload.value) IN
         [raised |-> "none",
          ret    |-> structured_data.scenes,
          out    |-> IF Len(structured_data.scenes) < MinScenes
                     THEN "WARNING: Coverage too low"
                     ELSE "none",
          calls  |-> 1]

(* ------------------------- app.py: mock agent -------------------------- *)

mock_analyze_chapter(chapter_num) ==
    << [location           |-> "Mock Location A",
        chapter_beat       |-> "Chapter " \o Dec(chapter_num) \o " - Part 1 - The Beginning",
        trigger_sentence   |-> "start of chapter " \o Dec(chapter_num),
        characters         |-> << [name |-> "Main Hero", role |-> "Main",
                                   visual_description |-> "A tall hero"],
                                  [name |-> "Sidekick", role |-> "Secondary",
                                   visual_description |-> "A small sidekick"] >>,
        skybox_environment |-> Skybox([visual_prompt |-> "outdoors Mock City",
                                       environment_type |-> "Outdoors"])],
       [location           |-> "Mock Location B",
        chapter_beat       |-> "Chapter " \o Dec(chapter_num) \o " - Part 2 - The Climax",
        trigger_sentence   |-> "loud noise in chapter " \o Dec(chapter_num),
        characters         |-> << [name |-> "Main Hero", role |-> "Main",
                                   visual_description |-> "A tall hero"],
                                  [name |-> "Villain", role |-> "Secondary",
                                   visual_description |-> "A dark shadowy figure"] >>,
        skybox_environment |-> Skybox([visual_prompt |-> "indoors Dark Castle",
                                       environment_type |-> "Indoors"])] >>

(* ---------------------------- sequencers ------------------------------- *)

RECURSIVE SelectIdx(_, _, _)
\* the list comprehensions  [c for c in scene.characters if c.role ==/!= "Main"]:
\* the positions k >= from, in list order, with (role = "Main") = wantMain
SelectIdx(cs, from, wantMain) ==
    IF from > Len(cs) THEN <<>>
    ELSE (IF (cs[from].role = "Main") = wantMain THEN <<from>> ELSE <<>>)
            \o SelectIdx(cs, from + 1, wantMain)

\* app.py generate_documents, the character part of one scene (Document 3):
\* the paragraphs written, as (name, ref) pairs in the order written
Doc3Entries(scene, scene_id) ==
    LET cs      == scene.characters
        mains0  == SelectIdx(cs, 1, TRUE)
        others0 == SelectIdx(cs, 1, FALSE)
        fall    == mains0 = <<>> /\ cs # <<>>
        main_chars  == IF fall THEN <<1>> ELSE mains0
        other_chars == IF fall THEN [k \in 1..(Len(cs) - 1) |-> k + 1] ELSE others0
        mcPart == IF main_chars # <<>>
                  THEN << [name |-> cs[main_chars[1]].name, ref |-> scene_id \o "mc01"] >>
                  ELSE <<>>
        scPart == [k \in 1..Len(other_chars) |->
                     [name |-> cs[other_chars[k]].name,
                      ref  |-> scene_id \o "sc" \o Fmt02(k)]]
    IN mcPart \o scPart

\* app.py generate_documents, one iteration of  for scene in all_scenes
DocScene(scene, global_idx) ==
    LET scene_id == SceneId(global_idx) IN
    [global_idx      |-> global_idx,
     scene_id        |-> scene_id,
     heading         |-> <<scene.location, scene.chapter_beat>>,
     trigger         |-> scene.trigger_sentence,
     background      |-> scene_id \o "bg01",
     negative_prompt |-> scene.skybox_environment.negative_prompt,
     characters      |-> Doc3Entries(scene, scene_id)]

\* the counter is not advanced
generate_documents_stuck(scenes) ==
    [g \in 1..Len(scenes) |-> DocScene(scenes[g], 1)]

\* app.py generate_documents: global_idx = 1, then one record per scene,
\* global_idx += 1 after each
generate_documents(scenes) ==
    [g \in 1..Len(scenes) |-> DocScene(scenes[g], 1 + (g - 1))]

RECURSIVE ScCounterAt(_, _)
\* the value of sc_counter when the loop reaches character k
ScCounterAt(cs, k) ==
    IF k = 1 THEN 1
    ELSE ScCounterAt(cs, k - 1) + (IF cs[k - 1].role = "Main" THEN 0 ELSE 1)

\* analyzer.py sequence_and_format, the character loop of one scene
PrintedEntries(scene, scene_id) ==
    LET cs == scene.characters IN
    [k \in 1..Len(cs) |->
        [name |-> cs[k].name,
         ref  |-> IF cs[k].role = "Main"
                  THEN scene_id \o "mc01"
                  ELSE scene_id \o "sc" \o Fmt02(ScCounterAt(cs, k))]]

\* analyzer.py sequence_and_format, one iteration of the scene loop
PrintedScene(scene, global_scene_index) ==
    LET scene_id == SceneId(global_scene_index) IN
    [global_idx  |-> global_scene_index,
     scene_id    |-> scene_id,
     heading     |-> <<scene.location, scene.chapter_beat>>,
     trigger     |-> scene.trigger_sentence,
     background  |-> scene_id \o "bg01",
     characters  |-> PrintedEntries(scene, scene_id)]

\* analyzer.py sequence_and_format: global_scene_index = 1, += 1 per scene
sequence_and_format(scenes) ==
    [g \in 1..Len(scenes) |-> PrintedScene(scenes[g], 1 + (g - 1))]

(* ------------------------------ inputs --------------------------------- *)

NotRun == [ran |-> FALSE, out |-> <<>>]

\* sequences over S of length 0..n
SeqUpTo(S, n) == UNION {[1..m -> S] : m \in 0..n}

NamePool == <<"B", "A", "C", "D", "E">>

CharDicts(roles) ==
    [k \in 1..Len(roles) |->
        [name |-> NamePool[k], role |-> roles[k], visual_description |-> "vd"]]

DefaultEnv == [visual_prompt |-> "vp", environment_type |-> "Indoors"]

\* the j-th scene object of a payload
SceneDict(j, chars, env) ==
    [location |-> "L" \o Dec(j), chapter_beat |-> "Part " \o Dec(j),
     trigger_sentence |-> "trigger " \o Dec(j),
     characters |-> chars, skybox_environment |-> env]

\* the j-th scene object of a payload, without the `characters` key
MissingCharacters(j) ==
    [location |-> "L" \o Dec(j), chapter_beat |-> "Part " \o Dec(j),
     trigger_sentence |-> "trigger " \o Dec(j),
     skybox_environment |-> DefaultEnv]

DictPayload(sceneDicts) ==
    [type |-> "dict", value |-> [scenes |-> [type |-> "list", value |-> sceneDicts]]]

\* payloads that are not an object with a scenes list
NonMappings == {[type |-> "list", value |-> <<>>],
                [type |-> "str",  value |-> <<>>],
                [type |-> "null", value |-> <<>>]}

BadTopLevel == {[type |-> "dict", value |-> [other |-> "x"]],
                [type |-> "dict", value |-> [scenes |-> [type |-> "str", value |-> <<>>]]]}

\* (a) chapter structure: well-formed scenes and scenes without `characters`
ChapterPayloads ==
    {DictPayload([j \in 1..Len(ks) |->
                    IF ks[j] = "ok"
                    THEN SceneDict(j, CharDicts(<<"Main", "Secondary">>), DefaultEnv)
                    ELSE MissingCharacters(j)]) :
        ks \in SeqUpTo({"ok", "nochars"}, MaxScenes)}
      \cup NonMappings \cup BadTopLevel

ChapterBooks == SeqUpTo(ChapterPayloads, MaxChapters)

\* (b) field values: roles, environment types, negative prompts
RoleValues == {"Main", "Secondary", "Villain"}
EnvTypeValues == {"Indoors", "Outdoors", "Cave"}
NegValues == {"", SKYBOX_NEGATIVE_PROMPT, "no fog"}

EnvDicts ==
    {[visual_prompt |-> "vp", environment_type |-> t] : t \in EnvTypeValues}
      \cup {[visual_prompt |-> "vp", environment_type |-> t, negative_prompt |-> n] :
              t \in EnvTypeValues, n \in NegValues}

FieldBooks ==
    {<<DictPayload([j \in 1..Len(fs) |-> SceneDict(j, CharDicts(<<fs[j][1]>>), fs[j][2])])>> :
        fs \in SeqUpTo(RoleValues \X EnvDicts, MaxScenes)}

\* (c) character lists: every combination of role tags
RoleLists == SeqUpTo({"Main", "Secondary"}, MaxChars)

CharBooks ==
    {<<DictPayload([j \in 1..Len(rs) |-> SceneDict(j, CharDicts(rs[j]), DefaultEnv)])>> :
        rs \in SeqUpTo(RoleLists, MaxScenes)}

\* (d) mock mode: the chapter texts are not looked at
MockBooks == {[k \in 1..n |-> [type |-> "text", value |-> <<>>]] : n \in 0..MaxBookChapters}

(* --------------------------- state machine ----------------------------- *)

Init ==
    /\ \/ use_mock = FALSE /\ chapters \in ChapterBooks \cup FieldBooks \cup CharBooks
       \/ use_mock = TRUE  /\ chapters \in MockBooks
    /\ i = 0
    /\ all_scenes = <<>>
    /\ log = <<>>
    /\ pc = "loop"
    /\ docs = NotRun
    /\ printed = NotRun

\* the agent call of the chapter loop: the mock, or the analyzer agent
AgentCall(k) ==
    IF use_mock
    THEN [raised |-> "none", ret |-> mock_analyze_chapter(k), out |-> "none", calls |-> 0]
    ELSE analyze_chapter_content(chapters[k])

\* one iteration of  for i, chapter_text in enumerate(chapters)
ChapterLoop ==
    /\ pc = "loop"
    /\ i < Len(chapters)
    /\ LET r == AgentCall(i + 1) IN
         /\ log' = Append(log, r)
         /\ IF r.raised # "none"
            THEN /\ pc' = "raised"
                 /\ UNCHANGED <<i, all_scenes>>
            ELSE /\ all_scenes' = all_scenes \o r.ret
                 /\ i' = i + 1
                 /\ pc' = IF i + 1 = Len(chapters) THEN "sequence" ELSE "loop"
    /\ UNCHANGED <<use_mock, chapters, docs, printed>>

\* a book without chapters: the loop body never runs
EmptyBook ==
    /\ pc = "loop"
    /\ Len(chapters) = 0
    /\ pc' = "sequence"
    /\ UNCHANGED <<use_mock, chapters, i, all_scenes, log, docs, printed>>

\* d1, d2, d3 = generate_documents(book_title, all_scenes)
GenerateDocuments ==
    /\ pc = "sequence"
    /\ ~docs.ran
    /\ docs' = [ran |-> TRUE, out |-> generate_documents(all_scenes)]
    /\ UNCHANGED <<use_mock, chapters, i, all_scenes, log, pc, printed>>

\* if extracted_scenes: sequence_and_format(extracted_scenes)
SequenceAndFormat ==
    /\ pc = "sequence"
    /\ ~printed.ran
    /\ all_scenes # <<>>
    /\ printed' = [ran |-> TRUE, out |-> sequence_and_format(all_scenes)]
    /\ UNCHANGED <<use_mock, chapters, i, all_scenes, log, pc, docs>>

Next == ChapterLoop \/ EmptyBook \/ GenerateDocuments \/ SequenceAndFormat

Spec == Init /\ [][Next]_vars

(* ------------------------------ properties ----------------------------- *)

RECURSIVE ScenesBefore(_)
\* the number of scenes the chapters 1..k handed to the loop
ScenesBefore(k) == IF k = 0 THEN 0 ELSE ScenesBefore(k - 1) + Len(log[k].ret)

\* chapter k went through the validator and its payload was accepted
Accepted(k) ==
    /\ ~use_mock
    /\ log[k].raised = "none"
    /\ log[k].out # "Data Validation Failed"

PayloadScenes(k) == chapters[k].value.scenes.value

\* the sequencer output `out` numbers the scenes of all chapters 1..N in
\* chapter order and, inside a chapter, in the order received
SequencedInOrder(out) ==
    /\ Len(out) = ScenesBefore(Len(log))
    /\ \A g \in 1..Len(out) : out[g].global_idx = g
    /\ \A k \in 1..Len(log) : \A j \in 1..Len(log[k].ret) :
          LET g == ScenesBefore(k - 1) + j IN
            /\ out[g].heading = <<log[k].ret[j].location, log[k].ret[j].chapter_beat>>
            /\ out[g].trigger = log[k].ret[j].trigger_sentence

\* C1: the sequencer numbers as many scenes as the chapters delivered, with the
\* global indices exactly 1..N, in chapter order and then in the order received.
C1_GlobalIndexDense ==
    /\ docs.ran => SequencedInOrder(docs.out)
    /\ printed.ran => SequencedInOrder(printed.out)

\* a run with an empty chapter between chapters that delivered scenes
C1_Witness ==
    /\ docs.ran /\ printed.ran
    /\ Len(docs.out) >= 3
    /\ \E k \in 1..Len(log) : \E m \in 1..Len(log) : \E n \in 1..Len(log) :
         k < m /\ m < n /\ log[k].ret # <<>> /\ log[m].ret = <<>> /\ log[n].ret # <<>>

\* the reference name a character at position p of cs is due
FirstMain(cs) ==
    IF \E p \in 1..Len(cs) : cs[p].role = "Main"
    THEN CHOOSE p \in 1..Len(cs) :
            /\ cs[p].role = "Main"
            /\ \A q \in 1..(p - 1) : cs[q].role # "Main"
    ELSE 1

DueRef(cs, p, scene_id) ==
    IF p = FirstMain(cs) THEN scene_id \o "mc01"
    ELSE scene_id \o "sc" \o Fmt02(IF p < FirstMain(cs) THEN p ELSE p - 1)

\* the reference names `entries` gives to the character called name
RefsOf(entries, name) ==
    {entries[e].ref : e \in {x \in 1..Len(entries) : entries[x].name = name}}

\* C2: the first Main-tagged character (else the first character) gets mc01,
\* every remaining character gets sc01, sc02, ... in list order.
C2_MainThenSecondaryRefs ==
    docs.ran =>
      \A g \in 1..Len(docs.out) :
        LET cs == all_scenes[g].characters IN
          \A p \in 1..Len(cs) :
            RefsOf(docs.out[g].characters, cs[p].name)
               = {DueRef(cs, p, docs.out[g].scene_id)}

\* the entries of a scene whose reference name ends in mc01 / has an sc index
McEntries(d) == {e \in 1..Len(d.characters) : d.characters[e].ref = d.scene_id \o "mc01"}
ScIndices(d, n) ==
    {k \in 1..n : \E e \in 1..Len(d.characters) :
                     d.characters[e].ref = d.scene_id \o "sc" \o Fmt02(k)}

\* C3: a scene with n characters gets no reference when n = 0, otherwise one
\* mc01 and the secondary indices 1..n-1, every character exactly one name.
C3_OneMainDenseSecondaries ==
    docs.ran =>
      \A g \in 1..Len(docs.out) :
        LET n == Len(all_scenes[g].characters)
            d == docs.out[g]
        IN /\ Len(d.characters) = n
           /\ n >= 1 => Cardinality(McEntries(d)) = 1
           /\ ScIndices(d, n) = 1..(n - 1)
           /\ \A e1, e2 \in 1..Len(d.characters) :
                 e1 # e2 => d.characters[e1].ref # d.characters[e2].ref

\* a payload that is an object but breaks the schema
SchemaBroken(payload) ==
    /\ payload.type = "dict"
    /\ \/ "scenes" \notin DOMAIN payload.value
       \/ payload.value.scenes.type # "list"
       \/ \E j \in 1..Len(payload.value.scenes.value) :
             "characters" \notin DOMAIN payload.value.scenes.value[j]

WellFormed(payload) == payload.type = "dict" /\ ~SchemaBroken(payload)

\* C4: a chapter whose payload breaks the schema contributes no scene and
\* raises nothing; the loop goes on, later chapters keep their scenes and the
\* indices continue after the last accepted scene.
C4_SchemaFailureIsolated ==
    ~use_mock =>
      /\ \A k \in 1..Len(log) :
           /\ SchemaBroken(chapters[k]) =>
                /\ log[k].raised = "none"
                /\ log[k].ret = <<>>
                /\ k = Len(log) => (i = k /\ pc # "raised")
           /\ WellFormed(chapters[k]) => Len(log[k].ret) = Len(PayloadScenes(k))
      /\ Len(all_scenes) = ScenesBefore(Len(log))
      /\ docs.ran =>
           \A k \in 1..Len(log) : \A j \in 1..Len(log[k].ret) :
              LET g == ScenesBefore(k - 1) + j IN
                /\ docs.out[g].global_idx = g
                /\ docs.out[g].trigger = PayloadScenes(k)[j].trigger_sentence

\* a well-formed chapter, a chapter that breaks the schema, a well-formed one
C4_Witness ==
    /\ docs.ran
    /\ Len(log) = 3
    /\ WellFormed(chapters[1]) /\ Len(log[1].ret) = 2
    /\ SchemaBroken(chapters[2]) /\ log[2].ret = <<>>
    /\ \E j \in 1..Len(PayloadScenes(2)) : "characters" \notin DOMAIN PayloadScenes(2)[j]
    /\ WellFormed(chapters[3]) /\ Len(log[3].ret) >= 1
    /\ docs.out[3].scene_id = "ch03"

\* C5: no accepted scene carries a role outside {Main, Secondary} or an
\* environment_type outside {Indoors, Outdoors}.
C5_EnumsEnforced ==
    ~use_mock =>
      \A g \in 1..Len(all_scenes) :
        /\ \A p \in 1..Len(all_scenes[g].characters) :
              all_scenes[g].characters[p].role \in {"Main", "Secondary"}
        /\ all_scenes[g].skybox_environment.environment_type \in {"Indoors", "Outdoors"}

\* C6: an accepted environment whose payload negative_prompt is absent or
\* empty carries the canonical constant; none is empty.
C6_NegativePromptRepaired ==
    \A k \in 1..Len(log) :
      Accepted(k) =>
        \A j \in 1..Len(log[k].ret) :
          LET e == PayloadScenes(k)[j].skybox_environment
              got == log[k].ret[j].skybox_environment.negative_prompt
          IN /\ got # ""
             /\ ("negative_prompt" \notin DOMAIN e \/ e.negative_prompt = "")
                   => got = SKYBOX_NEGATIVE_PROMPT

\* C7: no payload makes the validator raise; a payload that is not an object
\* with a scenes list gives an empty scene list and a reported error.
C7_NeverRaises ==
    /\ pc # "raised"
    /\ \A k \in 1..Len(log) :
         (~use_mock /\ ~WellFormed(chapters[k])) =>
            /\ log[k].raised = "none"
            /\ log[k].ret = <<>>
            /\ log[k].out = "Data Validation Failed"

\* "ch" and the decimal digits of g, two digits at least
ExpectedId(g) ==
    IF g < 10 THEN "ch0" \o Digit[g + 1]
    ELSE IF g < 100 THEN "ch" \o Digit[(g \div 10) + 1] \o Digit[(g % 10) + 1]
    ELSE "ch" \o Digit[(g \div 100) + 1] \o Digit[((g \div 10) % 10) + 1]
              \o Digit[(g % 10) + 1]

SceneIdsOf(out) ==
    /\ \A g \in 1..Len(out) :
          /\ out[g].scene_id = ExpectedId(g)
          /\ out[g].background = ExpectedId(g) \o "bg01"
    /\ \A g, h \in 1..Len(out) : g # h => out[g].scene_id # out[h].scene_id

\* C8: the scene with global index g has the id "ch" + the digits of g padded
\* to two, never cut; ids are pairwise distinct; the background is id + "bg01".
C8_SceneIdFormat ==
    /\ docs.ran => SceneIdsOf(docs.out)
    /\ printed.ran => SceneIdsOf(printed.out)

\* a book of at least 100 scenes has been sequenced
C8_Witness ==
    /\ docs.ran /\ printed.ran
    /\ Len(docs.out) >= 100
    /\ docs.out[1].scene_id = "ch01"
    /\ docs.out[99].scene_id = "ch99"
    /\ docs.out[100].scene_id = "ch100"
    /\ printed.out[100].background = "ch100bg01"

SameScene(scene, d) ==
    /\ scene.location = d.location
    /\ scene.chapter_beat = d.chapter_beat
    /\ scene.trigger_sentence = d.trigger_sentence
    /\ scene.characters = d.characters
    /\ scene.skybox_environment.visual_prompt = d.skybox_environment.visual_prompt
    /\ scene.skybox_environment.environment_type = d.skybox_environment.environment_type

\* C10: a chapter with fewer validated scenes than the minimum only gets a
\* warning: its scenes are returned unchanged, in order, and the model is
\* called once for the chapter.
C10_LowCoverageOnlyWarns ==
    \A k \in 1..Len(log) :
      (~use_mock /\ WellFormed(chapters[k]) /\ Len(PayloadScenes(k)) < MinScenes) =>
         /\ log[k].raised = "none"
         /\ log[k].out = "WARNING: Coverage too low"
         /\ log[k].calls = 1
         /\ Len(log[k].ret) = Len(PayloadScenes(k))
         /\ \A j \in 1..Len(log[k].ret) : SameScene(log[k].ret[j], PayloadScenes(k)[j])
         /\ \A j \in 1..Len(log[k].ret) :
               all_scenes[ScenesBefore(k - 1) + j] = log[k].ret[j]

\* a chapter with one scene and a chapter with none, both only warned about
C10_Witness ==
    /\ pc = "sequence"
    /\ \E k, m \in 1..Len(log) :
         /\ WellFormed(chapters[k]) /\ Len(PayloadScenes(k)) = 1
         /\ Len(log[k].ret) = 1 /\ log[k].out = "WARNING: Coverage too low"
         /\ WellFormed(chapters[m]) /\ Len(PayloadScenes(m)) = 0
         /\ log[m].out = "WARNING: Coverage too low"
         /\ Len(all_scenes) >= 1

\* C11: run on the same list of scenes, sequence_and_format and
\* generate_documents give every scene the same scene id and every character
\* the same reference name, whatever the role tags.
C11_SequencersEquivalent ==
    (docs.ran /\ printed.ran) =>
      /\ Len(docs.out) = Len(printed.out)
      /\ \A g \in 1..Len(docs.out) :
           /\ docs.out[g].scene_id = printed.out[g].scene_id
           /\ \A p \in 1..Len(all_scenes[g].characters) :
                RefsOf(docs.out[g].characters, all_scenes[g].characters[p].name)
                  = RefsOf(printed.out[g].characters, all_scenes[g].characters[p].name)

====
